---- MODULE Spec2Model ----
(***************************************************************************)
(* A model of google/cloud/storage/internal/grpc_client.cc: the channel    *)
(* pool built by CreateStorageStub, the upload loop of InsertObjectMedia,  *)
(* the read-range resolution of ReadObject / ToProto, the resumable        *)
(* session operations and the crc32c wire conversions.                     *)
(*                                                                         *)
(* Each part of the client has its own specification (SpecUpload,          *)
(* SpecRead, SpecSession, SpecPool, SpecCrc); the variables of the other   *)
(* parts stay at their initial values.                                     *)
(***************************************************************************)
EXTENDS Integers, Sequences, FiniteSets, TLC

\* ------------------------------------------------------------- bounds

\* Largest payload (bytes) of an InsertObjectMediaRequest.
MaxContents == 5
\* Largest value of the chunk cap (MAX_WRITE_CHUNK_BYTES) explored.
MaxChunk == 3
\* Offsets of read requests are 0, 5 and the multiples of 10 up to
\* 10 * MaxOffsetTens.
MaxOffsetTens == 5
\* Largest committed size a write-status response reports.
MaxCommitted == 3
\* Largest GrpcNumChannelsOption value.
MaxChannels == 3
\* Number of threads calling through the round-robin stub.
NumCallers == 2
\* Number of calls dispatched through the round-robin stub.
MaxCalls == 4
\* Number of times the application repeats a session operation.
MaxRepeats == 1
\* Number of calls of unimplemented operations made on one client.
MaxUnimplementedCalls == 2

\* ------------------------------------------------------------ statuses

\* google::cloud::StatusOr<T>: a value, or a non-OK status code.
Ok(v) == [ok |-> TRUE, value |-> v]
Error(code) == [ok |-> FALSE, code |-> code]

Min(a, b) == IF a < b THEN a ELSE b
Max(a, b) == IF a > b THEN a ELSE b

\* ------------------------------------------------- checksum encodings

\* A base64 text is a sequence of symbols: 0..63 is the index of a character
\* of the base64 alphabet, kPadding is '=', any other number is a character
\* outside the alphabet.
kPadding == 64

Bytes == 0..255

\* A std::uint32_t is kept as its two 16-bit halves, hi * 65536 + lo (the
\* model checker's integers are 32-bit signed).
U32(hi, lo) == [hi |-> hi, lo |-> lo]

\* google::cloud::internal::EncodeBigEndian(std::uint32_t)
EncodeBigEndian(v) ==
  << v.hi \div 256, v.hi % 256, v.lo \div 256, v.lo % 256 >>

\* google::cloud::internal::DecodeBigEndian<std::uint32_t>(std::string)
DecodeBigEndian(b) ==
  IF Len(b) # 4 THEN Error("InvalidArgument")
  ELSE Ok(U32(b[1] * 256 + b[2], b[3] * 256 + b[4]))

\* One group of up to three bytes as four base64 symbols.
Base64Group(g) ==
  IF Len(g) = 3 THEN
    << g[1] \div 4, (g[1] % 4) * 16 + g[2] \div 16,
       (g[2] % 16) * 4 + g[3] \div 64, g[3] % 64 >>
  ELSE IF Len(g) = 2 THEN
    << g[1] \div 4, (g[1] % 4) * 16 + g[2] \div 16, (g[2] % 16) * 4, kPadding >>
  ELSE
    << g[1] \div 4, (g[1] % 4) * 16, kPadding, kPadding >>

RECURSIVE Base64Encode(_)
Base64Encode(b) ==
  IF Len(b) = 0 THEN << >>
  ELSE IF Len(b) <= 3 THEN Base64Group(b)
  ELSE Base64Group(SubSeq(b, 1, 3)) \o Base64Encode(SubSeq(b, 4, Len(b)))

IsBase64Char(c) == c \in 0..63

\* A group of four symbols is well formed when it is four alphabet
\* characters, or (only as the last group) ends in one or two '='.
Base64GroupValid(g, last) ==
  /\ IsBase64Char(g[1])
  /\ IsBase64Char(g[2])
  /\ \/ IsBase64Char(g[3]) /\ IsBase64Char(g[4])
     \/ last /\ IsBase64Char(g[3]) /\ g[4] = kPadding
     \/ last /\ g[3] = kPadding /\ g[4] = kPadding

Base64GroupBytes(g) ==
  IF g[3] = kPadding THEN << g[1] * 4 + g[2] \div 16 >>
  ELSE IF g[4] = kPadding THEN
    << g[1] * 4 + g[2] \div 16, (g[2] % 16) * 16 + g[3] \div 4 >>
  ELSE
    << g[1] * 4 + g[2] \div 16, (g[2] % 16) * 16 + g[3] \div 4,
       (g[3] % 4) * 64 + g[4] >>

RECURSIVE Base64Valid(_)
Base64Valid(t) ==
  IF Len(t) = 0 THEN TRUE
  ELSE IF Len(t) < 4 THEN FALSE
  ELSE /\ Base64GroupValid(SubSeq(t, 1, 4), Len(t) = 4)
       /\ Base64Valid(SubSeq(t, 5, Len(t)))

RECURSIVE Base64Bytes(_)
Base64Bytes(t) ==
  IF Len(t) = 0 THEN << >>
  ELSE Base64GroupBytes(SubSeq(t, 1, 4)) \o Base64Bytes(SubSeq(t, 5, Len(t)))

\* internal::Base64Decode(std::string): the bytes, or InvalidArgument.
Base64Decode(t) ==
  IF Base64Valid(t) THEN Ok(Base64Bytes(t)) ELSE Error("InvalidArgument")

\* GrpcClient::Crc32cFromProto
Crc32cFromProto(v) == Base64Encode(EncodeBigEndian(v))

\* GrpcClient::Crc32cToProto
Crc32cToProtoLittleEndian(v) ==
  LET decoded == Base64Decode(v)
  IN  IF ~decoded.ok THEN decoded
      ELSE DecodeBigEndian([i \in 1..Len(decoded.value) |->
                              decoded.value[Len(decoded.value) + 1 - i]])
Crc32cToProto(v) ==
  LET decoded == Base64Decode(v)
  IN  IF ~decoded.ok THEN decoded ELSE DecodeBigEndian(decoded.value)

\* Hex text: a sequence of nibbles 0..15 (internal::HexEncode).
RECURSIVE HexEncode(_)
HexEncode(b) ==
  IF Len(b) = 0 THEN << >>
  ELSE << b[1] \div 16, b[1] % 16 >> \o HexEncode(Tail(b))

\* GrpcClient::MD5ToProto
MD5ToProto(v) ==
  IF Len(v) = 0 THEN Ok(<< >>)
  ELSE LET binary == Base64Decode(v)
       IN  IF ~binary.ok THEN binary ELSE Ok(HexEncode(binary.value))

\* internal::HexDecode: the bytes of a hex text.
RECURSIVE HexDecode(_)
HexDecode(h) ==
  IF Len(h) < 2 THEN << >>
  ELSE << h[1] * 16 + h[2] >> \o HexDecode(SubSeq(h, 3, Len(h)))

\* GrpcClient::MD5FromProto
MD5FromProto(v) ==
  IF Len(v) = 0 THEN << >> ELSE Base64Encode(HexDecode(v))

\* A 16-bit polynomial fold of the bytes.
RECURSIVE Fold(_)
Fold(b) ==
  IF Len(b) = 0 THEN 0
  ELSE (Fold(SubSeq(b, 1, Len(b) - 1)) * 31 + b[Len(b)] + 1) % 65536

\* crc32c::Crc32c (third-party library): a 32-bit checksum of the bytes,
\* here built from their length and a fold of them.
Crc32c(b) == U32((Len(b) * 257) % 65536, Fold(b))

\* internal::MD5Hash (OpenSSL): a digest of the bytes, here two bytes long.
MD5Hash(b) == << Len(b) % 256, Fold(b) % 256 >>

\* GrpcClient::ComputeMD5Hash
ComputeMD5Hash(payload) == HexEncode(MD5Hash(payload))

\* ------------------------------------------------------------- state

VARIABLES
  \* InsertObjectMedia
  request,              \* the InsertObjectMediaRequest
  maximum_buffer_size,  \* ServiceConstants::MAX_WRITE_CHUNK_BYTES
  up_pc,                \* position in InsertObjectMedia
  offset,               \* the loop's offset
  proto_request,        \* the outgoing message template
  insert_streams,       \* number of stub_->InsertObjectMedia calls
  writes,               \* the messages handed to stream->Write, in order
  close_calls,          \* number of stream->Close calls
  close_response,       \* what stream->Close answered
  up_result             \* what InsertObjectMedia returned

VARIABLES
  \* ReadObject
  read_request,         \* the ReadObjectRangeRequest
  download_stall_timeout, \* the client's option, in seconds
  rd_pc,                \* position in ReadObject
  media_calls,          \* the stub_->GetObjectMedia calls of the operation
  rd_result             \* what ReadObject returned

uploadVars == << request, maximum_buffer_size, up_pc, offset, proto_request,
                 insert_streams, writes, close_calls, close_response,
                 up_result >>

VARIABLES
  \* CreateResumableSession, RestoreResumableSession, QueryResumableUpload
  sn_op,                \* the operation called
  sn_input,             \* its argument
  sn_pc,                \* position in the operation
  session,              \* the GrpcResumableUploadSession under construction
  stub_calls,           \* the calls made on stub_ by the operation, in order
  reset_response,       \* what session->ResetSession() returned
  sn_result,            \* what the operation returned
  sn_history            \* the stub calls and results of the earlier calls

readVars == << read_request, download_stall_timeout, rd_pc, media_calls,
               rd_result >>

VARIABLES
  \* CreateStorageStub and the StorageRoundRobin stub it returns
  options,              \* GrpcNumChannelsOption, GrpcPluginOption, the
                        \* authentication strategy's RequiresConfigureContext
  pl_pc,                \* "start" before CreateStorageStub, "ready" after
  children,             \* the channels of the pool, in order
  stub,                 \* the outermost stub: StorageRoundRobin or StorageAuth
  current,              \* the round-robin counter
  callers,              \* per calling thread: idle, or calling on a child
  dispatched            \* the children picked so far, in order

sessionVars == << sn_op, sn_input, sn_pc, session, stub_calls, reset_response,
                  sn_result, sn_history >>

VARIABLES
  \* Crc32cFromProto and Crc32cToProto
  crc_value,            \* a crc32c value, as the proto holds it
  crc_pc,               \* "start", "encoded" or "done"
  crc_text,             \* Crc32cFromProto(crc_value)
  crc_back              \* Crc32cToProto(crc_text)

poolVars == << options, pl_pc, children, stub, current, callers, dispatched >>

crcVars == << crc_value, crc_pc, crc_text, crc_back >>

VARIABLES
  \* the operations GrpcClient does not implement
  un_count,             \* number of such calls made so far
  un_op,                \* the operation called last
  un_request,           \* its argument
  un_stub_calls,        \* the calls made on stub_ by these operations
  un_result             \* what the last call returned

unimplementedVars == << un_count, un_op, un_request, un_stub_calls, un_result >>

VARIABLES
  \* DatabaseAdminClient::CreateDatabase / UpdateDatabase
  ad_op,                \* the operation called
  ad_database,          \* the database it is called for
  ad_pc,                \* position of the caller
  ad_start,             \* what the start RPC of the stub answered
  ad_calls,             \* the calls made on the stub, in order
  await_future,         \* the future the stub's Await returned
  ad_future,            \* the future the client returned
  ad_linked,            \* the client's future is the one Await returned
  ad_ready_at_return,   \* the client's future was ready when the call returned
  ad_result             \* what future::get() gave the caller

adminVars == << ad_op, ad_database, ad_pc, ad_start, ad_calls, await_future,
                ad_future, ad_linked, ad_ready_at_return, ad_result >>

vars == << uploadVars, readVars, sessionVars, poolVars, crcVars,
           unimplementedVars, adminVars >>

\* ------------------------------------------------ InsertObjectMedia

NoOption == [has |-> FALSE]
Option(v) == [has |-> TRUE, value |-> v]

\* optional<T>::value_or
ValueOr(opt, d) == IF opt.has THEN opt.value ELSE d

\* The payload of size s: byte i (0-based) has value i mod 256, so that
\* every position of the payload is recognisable in the messages.
Payload(s) == [i \in 1..s |-> (i - 1) % 256]

\* Values of the Crc32cChecksumValue option: a well formed value, a value
\* that decodes to three bytes, one with a character outside the alphabet,
\* one whose length is no multiple of four.
Crc32cTexts ==
  { Crc32cFromProto(U32(258, 772)), << 0, 0, 0, 0 >>, << 65, 0, 0, 0 >>, << 0, 0 >> }

\* Values of the MD5HashValue option.
MD5Texts == { Base64Encode(<< 1, 2, 3 >>), << 65, 0, 0, 0 >>, << >> }

Flags == { NoOption, Option(TRUE), Option(FALSE) }

InsertObjectMediaRequests ==
  [ bucket_name : {"bucket"},
    object_name : {"object"},
    contents : { Payload(s) : s \in 0..MaxContents },
    Crc32cChecksumValue : {NoOption} \cup { Option(t) : t \in Crc32cTexts },
    DisableCrc32cChecksum : Flags,
    MD5HashValue : {NoOption} \cup { Option(t) : t \in MD5Texts },
    DisableMD5Hash : Flags ]

\* The crc32c of the whole-object checksums (ToProto, lines 898-912).
ObjectCrc32cDisableFirst(req) ==
  IF ValueOr(req.DisableCrc32cChecksum, FALSE) THEN Ok(NoOption)
  ELSE IF req.Crc32cChecksumValue.has THEN
    LET as_proto == Crc32cToProto(req.Crc32cChecksumValue.value)
    IN  IF ~as_proto.ok THEN as_proto ELSE Ok(Option(as_proto.value))
  ELSE Ok(Option(Crc32c(req.contents)))
ObjectCrc32c(req) ==
  IF req.Crc32cChecksumValue.has THEN
    LET as_proto == Crc32cToProto(req.Crc32cChecksumValue.value)
    IN  IF ~as_proto.ok THEN as_proto ELSE Ok(Option(as_proto.value))
  ELSE IF ValueOr(req.DisableCrc32cChecksum, FALSE) THEN Ok(NoOption)
  ELSE Ok(Option(Crc32c(req.contents)))

\* The md5_hash of the whole-object checksums (ToProto, lines 914-922).
ObjectMD5(req) ==
  IF req.MD5HashValue.has THEN
    LET as_proto == MD5ToProto(req.MD5HashValue.value)
    IN  IF ~as_proto.ok THEN as_proto ELSE Ok(Option(as_proto.value))
  ELSE IF ValueOr(req.DisableMD5Hash, FALSE) THEN Ok(NoOption)
  ELSE Ok(Option(ComputeMD5Hash(req.contents)))

\* The checksums of a request: a value that cannot be decoded counts as not
\* given.
ChecksumOrNone(c) == IF c.ok THEN c.value ELSE NoOption

\* GrpcClient::ToProto(InsertObjectMediaRequest)
ToProtoInsertUnvalidated(req) ==
  Ok([ insert_object_spec |->
         Option([bucket |-> req.bucket_name, name |-> req.object_name]),
       write_offset |-> 0,
       object_checksums |->
         Option([crc32c |-> ChecksumOrNone(ObjectCrc32c(req)),
                 md5_hash |-> ChecksumOrNone(ObjectMD5(req))]),
       content |-> << >>,
       crc32c |-> NoOption,
       finish_write |-> FALSE ])
ToProtoInsert(req) ==
  LET crc == ObjectCrc32c(req)
      md5 == ObjectMD5(req)
  IN  IF ~crc.ok THEN crc
      ELSE IF ~md5.ok THEN md5
      ELSE Ok([ insert_object_spec |->
                  Option([bucket |-> req.bucket_name, name |-> req.object_name]),
                write_offset |-> 0,
                object_checksums |->
                  Option([crc32c |-> crc.value, md5_hash |-> md5.value]),
                content |-> << >>,
                crc32c |-> NoOption,
                finish_write |-> FALSE ])

\* The message template before ToProto ran.
EmptyProto ==
  [ insert_object_spec |-> NoOption, write_offset |-> 0,
    object_checksums |-> NoOption, content |-> << >>, crc32c |-> NoOption,
    finish_write |-> FALSE ]

\* std::string::substr(pos, n)
Substr(s, pos, n) == SubSeq(s, pos + 1, Min(pos + n, Len(s)))

\* No upload is under way (the state of the upload part in the
\* specifications of the other parts).
UploadIdle ==
  /\ request = [ bucket_name |-> "bucket", object_name |-> "object",
                 contents |-> << >>, Crc32cChecksumValue |-> NoOption,
                 DisableCrc32cChecksum |-> NoOption, MD5HashValue |-> NoOption,
                 DisableMD5Hash |-> NoOption ]
  /\ maximum_buffer_size = 1
  /\ up_pc = "idle"
  /\ offset = 0
  /\ proto_request = EmptyProto
  /\ insert_streams = 0
  /\ writes = << >>
  /\ close_calls = 0
  /\ close_response = NoOption
  /\ up_result = NoOption

UploadStart ==
  /\ request \in InsertObjectMediaRequests
  /\ maximum_buffer_size \in 1..MaxChunk
  /\ up_pc = "start"
  /\ offset = 0
  /\ proto_request = EmptyProto
  /\ insert_streams = 0
  /\ writes = << >>
  /\ close_calls = 0
  /\ close_response = NoOption
  /\ up_result = NoOption

\* InsertObjectMedia, lines 255-260: convert the request, open the stream.
InsertObjectMediaBegin ==
  /\ up_pc = "start"
  /\ LET r == ToProtoInsert(request)
     IN  IF ~r.ok
         THEN /\ up_result' = Option(r)
              /\ up_pc' = "done"
              /\ UNCHANGED << proto_request, insert_streams >>
         ELSE /\ proto_request' = r.value
              /\ insert_streams' = insert_streams + 1
              /\ up_pc' = "loop"
              /\ UNCHANGED up_result
  /\ UNCHANGED << request, maximum_buffer_size, offset, writes, close_calls,
                  close_response >>
  /\ UNCHANGED << readVars, sessionVars, poolVars, crcVars,
                  unimplementedVars, adminVars >>

\* The segment length of one iteration (line 272).
SegmentLengthStalled(contents_size, off, cap) ==
  Min(contents_size - off, cap - 1)
SegmentLength(contents_size, off, cap) == Min(contents_size - off, cap)

\* Whether the iteration sends the final message (line 278).
IsFinalSegmentStrict(contents_size, off, n) == off + n > contents_size
IsFinalSegment(contents_size, off, n) == off + n >= contents_size

\* The offset of the next iteration (line 269, offset += n).
NextOffsetAssigned(off, n) == n
NextOffset(off, n) == off + n

\* After a message that is not the last was accepted (lines 286-287): the
\* object specification and the checksums leave the template.
ClearSpecOnly(r) == [r EXCEPT !.insert_object_spec = NoOption]
ClearOneTimeFields(r) ==
  [r EXCEPT !.insert_object_spec = NoOption, !.object_checksums = NoOption]

\* Line 283: the loop ends when the stream rejected a message that is not
\* the last one.
LeavesLoopNever(accepted) == FALSE
LeavesLoop(accepted) == ~accepted

\* InsertObjectMedia, lines 269-288: one iteration of the loop. The stream
\* accepts the message or not.
InsertObjectMediaWrite ==
  /\ up_pc = "loop"
  /\ LET contents_size == Len(request.contents)
         n == SegmentLength(contents_size, offset, maximum_buffer_size)
         content == Substr(request.contents, offset, n)
         filled == [proto_request EXCEPT !.write_offset = offset,
                                         !.content = content,
                                         !.crc32c = Option(Crc32c(content))]
     IN  \E accepted \in BOOLEAN :
           IF IsFinalSegment(contents_size, offset, n)
           THEN /\ proto_request' = [filled EXCEPT !.finish_write = TRUE]
                /\ writes' = Append(writes, [ msg |-> proto_request',
                                              last_message |-> TRUE,
                                              accepted |-> accepted ])
                /\ up_pc' = "close"
                /\ UNCHANGED offset
           ELSE /\ writes' = Append(writes, [ msg |-> filled,
                                              last_message |-> FALSE,
                                              accepted |-> accepted ])
                /\ IF LeavesLoop(accepted)
                   THEN /\ proto_request' = filled
                        /\ up_pc' = "close"
                        /\ UNCHANGED offset
                   ELSE /\ proto_request' = ClearOneTimeFields(filled)
                        /\ offset' = NextOffset(offset, n)
                        /\ up_pc' = IF NextOffset(offset, n) <= contents_size
                                    THEN "loop" ELSE "close"
  /\ UNCHANGED << request, maximum_buffer_size, insert_streams, close_calls,
                  close_response, up_result >>
  /\ UNCHANGED << readVars, sessionVars, poolVars, crcVars,
                  unimplementedVars, adminVars >>

\* What stream->Close can answer: the stored object, or an error.
CloseResponses ==
  { Ok([name |-> "object", generation |-> g]) : g \in {1, 2} }
    \cup { Error(c) : c \in {"Unavailable", "PermissionDenied"} }

\* GrpcClient::FromProto(google::storage::v1::Object)
FromProtoObject(object) ==
  [ kind |-> "storage#object", name |-> object.name,
    generation |-> object.generation ]

\* InsertObjectMedia, lines 291-292: what the call returns for the answer of
\* Close.
CloseOutcomeSwallowed(response) ==
  IF ~response.ok THEN Ok(FromProtoObject([name |-> "", generation |-> 0]))
  ELSE Ok(FromProtoObject(response.value))
CloseOutcome(response) ==
  IF ~response.ok THEN response ELSE Ok(FromProtoObject(response.value))

\* InsertObjectMedia, lines 290-292: close the stream, return its outcome.
InsertObjectMediaClose ==
  /\ up_pc = "close"
  /\ \E response \in CloseResponses :
       /\ close_response' = Option(response)
       /\ up_result' = Option(CloseOutcome(response))
  /\ close_calls' = close_calls + 1
  /\ up_pc' = "done"
  /\ UNCHANGED << request, maximum_buffer_size, offset, proto_request,
                  insert_streams, writes >>
  /\ UNCHANGED << readVars, sessionVars, poolVars, crcVars,
                  unimplementedVars, adminVars >>

NextUpload ==
  \/ InsertObjectMediaBegin
  \/ InsertObjectMediaWrite
  \/ InsertObjectMediaClose

\* ------------------------------------------------------- ReadObject

Offsets == {0, 5} \cup { 10 * k : k \in 1..MaxOffsetTens }

ReadObjectRangeRequests ==
  [ bucket_name : {"bucket"},
    object_name : {"object"},
    ReadRange : {NoOption}
                  \cup { Option([begin |-> b, end |-> e]) : b, e \in Offsets },
    ReadLast : {NoOption} \cup { Option(n) : n \in Offsets },
    ReadFromOffset : {NoOption} \cup { Option(f) : f \in Offsets } ]

\* ToProto, lines 963-967: the ReadRange option.
ApplyReadRange(r, req) ==
  IF req.ReadRange.has
  THEN [r EXCEPT !.read_offset = req.ReadRange.value.begin,
                 !.read_limit = req.ReadRange.value.end
                                  - req.ReadRange.value.begin]
  ELSE r

\* ToProto, lines 968-971: the ReadLast option.
ApplyReadLast(r, req) ==
  IF req.ReadLast.has
  THEN [r EXCEPT !.read_offset = 0 - req.ReadLast.value]
  ELSE r

\* ToProto, lines 972-980: the ReadFromOffset option.
ApplyReadFromOffsetInclusive(r, req) ==
  IF req.ReadFromOffset.has /\ req.ReadFromOffset.value >= r.read_offset
  THEN [r EXCEPT !.read_limit = IF r.read_limit > 0
                                THEN req.ReadFromOffset.value - r.read_offset
                                ELSE r.read_limit,
                 !.read_offset = req.ReadFromOffset.value]
  ELSE r
ApplyReadFromOffset(r, req) ==
  IF req.ReadFromOffset.has /\ req.ReadFromOffset.value > r.read_offset
  THEN [r EXCEPT !.read_limit = IF r.read_limit > 0
                                THEN req.ReadFromOffset.value - r.read_offset
                                ELSE r.read_limit,
                 !.read_offset = req.ReadFromOffset.value]
  ELSE r

\* GrpcClient::ToProto(ReadObjectRangeRequest)
ToProtoRead(req) ==
  ApplyReadFromOffset(
    ApplyReadLast(
      ApplyReadRange([ object |-> req.object_name, bucket |-> req.bucket_name,
                       read_offset |-> 0, read_limit |-> 0 ], req),
      req),
    req)

\* ReadObject, lines 311-312: the request asks for the last 0 bytes.
ReadLastIsNegative(req) == req.ReadLast.has /\ req.ReadLast.value < 0
ReadLastIsZero(req) == req.ReadLast.has /\ req.ReadLast.value = 0

ReadIdle ==
  /\ read_request = [ bucket_name |-> "bucket", object_name |-> "object",
                      ReadRange |-> NoOption, ReadLast |-> NoOption,
                      ReadFromOffset |-> NoOption ]
  /\ download_stall_timeout = 0
  /\ rd_pc = "idle"
  /\ media_calls = << >>
  /\ rd_result = NoOption

ReadStart ==
  /\ read_request \in ReadObjectRangeRequests
  /\ download_stall_timeout \in {0, 1}
  /\ rd_pc = "start"
  /\ media_calls = << >>
  /\ rd_result = NoOption

\* GrpcClient::ReadObject
ReadObject ==
  /\ rd_pc = "start"
  /\ IF ReadLastIsZero(read_request)
     THEN /\ rd_result' = Option(Error("OutOfRange"))
          /\ UNCHANGED media_calls
     ELSE /\ media_calls' =
               Append(media_calls,
                      [ request |-> ToProtoRead(read_request),
                        deadline |-> download_stall_timeout # 0 ])
          /\ rd_result' = Option(Ok("GrpcObjectReadSource"))
  /\ rd_pc' = "done"
  /\ UNCHANGED << read_request, download_stall_timeout >>
  /\ UNCHANGED << uploadVars, sessionVars, poolVars, crcVars,
                  unimplementedVars, adminVars >>

\* ----------------------------------------------- resumable sessions

UploadIds == {"upload-1", "upload-2"}

\* The parameters a session url encodes (ResumableUploadSessionGrpcParams).
SessionParams ==
  [ bucket_name : {"bucket"}, object_name : {"object"}, upload_id : UploadIds ]

\* EncodeGrpcResumableUploadSessionUrl: the url of a session.
EncodeGrpcResumableUploadSessionUrl(params) ==
  [ scheme |-> "grpc", params |-> params ]

\* The urls a caller may pass: urls of sessions, a string that is no session
\* url, and the empty string.
GarbageUrl == [ scheme |-> "garbage" ]
EmptyUrl == [ scheme |-> "" ]
SessionUrls ==
  { EncodeGrpcResumableUploadSessionUrl(p) : p \in SessionParams }
    \cup { GarbageUrl, EmptyUrl }

\* DecodeGrpcResumableUploadSessionUrl
DecodeGrpcResumableUploadSessionUrl(url) ==
  IF url.scheme = "grpc" THEN Ok(url.params) ELSE Error("InvalidArgument")

\* What the service may answer to QueryWriteStatus and StartResumableWrite.
ServiceErrors == { Error(c) : c \in {"Unavailable", "NotFound"} }
QueryWriteStatusResponses ==
  { Ok([committed_size |-> n, complete |-> c]) :
      n \in 0..MaxCommitted, c \in BOOLEAN } \cup ServiceErrors
StartResumableWriteResponses ==
  { Ok([upload_id |-> u]) : u \in UploadIds } \cup ServiceErrors

\* GrpcClient::ToProto(QueryResumableUploadRequest)
ToProtoQuery(req) == [ upload_id |-> req.upload_session_url ]

\* GrpcClient::ToProto(ResumableUploadRequest)
ToProtoResumable(req) ==
  [ insert_object_spec |-> [bucket |-> req.bucket_name, name |-> req.object_name] ]

\* QueryResumableUpload, lines 181-190: the result for a stub response.
QueryResumableUploadResultDoneAlways(response) ==
  IF ~response.ok THEN response
  ELSE Ok([ upload_session_url |-> "",
            last_committed_byte |-> response.value.committed_size,
            upload_state |-> "kDone" ])
QueryResumableUploadResult(response) ==
  IF ~response.ok THEN response
  ELSE Ok([ upload_session_url |-> "",
            last_committed_byte |-> response.value.committed_size,
            upload_state |-> IF response.value.complete
                             THEN "kDone" ELSE "kInProgress" ])

\* RestoreResumableSession, lines 384-387: the session if the reset went
\* well, else the status of the reset.
RestoreOutcomeAlways(s, response) == Ok(s)
RestoreOutcome(s, response) ==
  IF response.ok THEN Ok(s) ELSE Error(response.code)

ResumableUploadRequests ==
  [ bucket_name : {"bucket"}, object_name : {"object"},
    UseResumableUploadSession : {NoOption} \cup { Option(u) : u \in SessionUrls } ]

QueryResumableUploadRequests == [ upload_session_url : UploadIds ]

SessionIdle ==
  /\ sn_op = "none"
  /\ sn_input = NoOption
  /\ sn_pc = "idle"
  /\ session = NoOption
  /\ stub_calls = << >>
  /\ reset_response = NoOption
  /\ sn_result = NoOption
  /\ sn_history = << >>

SessionStart ==
  /\ \/ sn_op = "CreateResumableSession" /\ sn_input \in ResumableUploadRequests
     \/ sn_op = "RestoreResumableSession" /\ sn_input \in SessionUrls
     \/ sn_op = "QueryResumableUpload" /\ sn_input \in QueryResumableUploadRequests
  /\ sn_pc = "start"
  /\ session = NoOption
  /\ stub_calls = << >>
  /\ reset_response = NoOption
  /\ sn_result = NoOption
  /\ sn_history = << >>

\* GrpcClient::QueryResumableUpload, called by the application.
QueryResumableUpload ==
  /\ sn_op = "QueryResumableUpload"
  /\ sn_pc = "start"
  /\ \E response \in QueryWriteStatusResponses :
       /\ stub_calls' = Append(stub_calls, [ rpc |-> "QueryWriteStatus",
                                             request |-> ToProtoQuery(sn_input),
                                             response |-> response ])
       /\ sn_result' = Option(QueryResumableUploadResult(response))
  /\ sn_pc' = "done"
  /\ UNCHANGED << sn_history, sn_op, sn_input, session, reset_response >>
  /\ UNCHANGED << uploadVars, readVars, poolVars, crcVars,
                  unimplementedVars, adminVars >>

\* The url CreateResumableSession restores from, if any (lines 357-362).
RestoreUrlOfAny(req) == req.UseResumableUploadSession
RestoreUrlOf(req) ==
  IF req.UseResumableUploadSession.has
       /\ req.UseResumableUploadSession.value # EmptyUrl
  THEN req.UseResumableUploadSession
  ELSE NoOption

\* GrpcClient::CreateResumableSession, lines 357-372: either hands over to
\* RestoreResumableSession or starts a resumable write.
CreateResumableSession ==
  /\ sn_op = "CreateResumableSession"
  /\ sn_pc = "start"
  /\ IF RestoreUrlOf(sn_input).has
     THEN /\ sn_pc' = "restore"
          /\ UNCHANGED << session, stub_calls, sn_result >>
     ELSE \E response \in StartResumableWriteResponses :
            /\ stub_calls' = Append(stub_calls,
                                    [ rpc |-> "StartResumableWrite",
                                      request |-> ToProtoResumable(sn_input),
                                      response |-> response ])
            /\ IF ~response.ok
               THEN /\ sn_result' = Option(response)
                    /\ UNCHANGED session
               ELSE /\ session' =
                         Option([ params |->
                                    [ bucket_name |-> sn_input.bucket_name,
                                      object_name |-> sn_input.object_name,
                                      upload_id |-> response.value.upload_id ],
                                  next_expected |-> 0,
                                  done |-> FALSE ])
                    /\ sn_result' = Option(Ok(session'.value))
            /\ sn_pc' = "done"
  /\ UNCHANGED << sn_history, sn_op, sn_input, reset_response >>
  /\ UNCHANGED << uploadVars, readVars, poolVars, crcVars,
                  unimplementedVars, adminVars >>

\* The url RestoreResumableSession was called with.
UploadUrl ==
  IF sn_op = "RestoreResumableSession" THEN sn_input
  ELSE RestoreUrlOf(sn_input).value

\* RestoreResumableSession, lines 378-382: no session for parameters that
\* could not be decoded, else a new session with these parameters.
SessionForUnchecked(upload_session_params) ==
  Option([ params |-> IF upload_session_params.ok
                      THEN upload_session_params.value
                      ELSE [ bucket_name |-> "", object_name |-> "",
                             upload_id |-> "" ],
           next_expected |-> 0,
           done |-> FALSE ])
SessionFor(upload_session_params) ==
  IF ~upload_session_params.ok THEN NoOption
  ELSE Option([ params |-> upload_session_params.value,
                next_expected |-> 0,
                done |-> FALSE ])

\* GrpcClient::RestoreResumableSession, lines 376-382: decode the url and
\* construct the session.
RestoreResumableSession ==
  /\ \/ sn_op = "RestoreResumableSession" /\ sn_pc = "start"
     \/ sn_op = "CreateResumableSession" /\ sn_pc = "restore"
  /\ LET upload_session_params == DecodeGrpcResumableUploadSessionUrl(UploadUrl)
     IN  IF ~SessionFor(upload_session_params).has
         THEN /\ sn_result' = Option(upload_session_params)
              /\ sn_pc' = "done"
              /\ UNCHANGED session
         ELSE /\ session' = SessionFor(upload_session_params)
              /\ sn_pc' = "reset"
              /\ UNCHANGED sn_result
  /\ UNCHANGED << sn_history, sn_op, sn_input, stub_calls, reset_response >>
  /\ UNCHANGED << uploadVars, readVars, poolVars, crcVars,
                  unimplementedVars, adminVars >>

\* GrpcResumableUploadSession::ResetSession (line 383): queries the write
\* status through the client and takes the committed size from the answer.
ResetSession ==
  /\ sn_pc = "reset"
  /\ \E response \in QueryWriteStatusResponses :
       LET result == QueryResumableUploadResult(response)
       IN  /\ stub_calls' =
                Append(stub_calls,
                       [ rpc |-> "QueryWriteStatus",
                         request |-> ToProtoQuery(
                           [upload_session_url |-> session.value.params.upload_id]),
                         response |-> response ])
           /\ reset_response' = Option(result)
           /\ session' =
                IF ~result.ok THEN session
                ELSE Option([ session.value EXCEPT
                                !.next_expected = result.value.last_committed_byte,
                                !.done = (result.value.upload_state = "kDone") ])
  /\ sn_pc' = "return"
  /\ UNCHANGED << sn_history, sn_op, sn_input, sn_result >>
  /\ UNCHANGED << uploadVars, readVars, poolVars, crcVars,
                  unimplementedVars, adminVars >>

\* GrpcClient::RestoreResumableSession, lines 384-387: return the session
\* or the status of the reset. A session that is not returned is destroyed.
RestoreResumableSessionReturn ==
  /\ sn_pc = "return"
  /\ sn_result' = Option(RestoreOutcome(session.value, reset_response.value))
  /\ session' = IF sn_result'.value.ok THEN session ELSE NoOption
  /\ sn_pc' = "done"
  /\ UNCHANGED << sn_history, sn_op, sn_input, stub_calls, reset_response >>
  /\ UNCHANGED << uploadVars, readVars, poolVars, crcVars,
                  unimplementedVars, adminVars >>

\* The application calls the same operation again with the same argument.
\* GrpcClient keeps nothing of a session operation: the call starts as the
\* first one did.
CallAgain ==
  /\ sn_pc = "done"
  /\ Len(sn_history) < MaxRepeats
  /\ sn_history' = Append(sn_history, [ stub_calls |-> stub_calls,
                                        result |-> sn_result.value ])
  /\ sn_pc' = "start"
  /\ session' = NoOption
  /\ stub_calls' = << >>
  /\ reset_response' = NoOption
  /\ sn_result' = NoOption
  /\ UNCHANGED << sn_op, sn_input >>
  /\ UNCHANGED << uploadVars, readVars, poolVars, crcVars,
                  unimplementedVars, adminVars >>

\* ------------------------------------------------------ channel pool

\* The flags of a GrpcPluginOption string that CreateGrpcChannel looks for;
\* "other" stands for any other element of the comma-separated list.
PluginFlags ==
  { "dp", "alts", "pick-first-lb", "enable-dns-srv-queries",
    "disable-dns-srv-queries", "exclusive", "other" }

\* A GrpcPluginOption string: the empty string, "default", "none", or any
\* other string, which absl::StrSplit turns into a non-empty set of elements.
PluginConfigs ==
  { [text |-> t, settings |-> {}] : t \in {"", "default", "none"} }
    \cup { [text |-> "list", settings |-> f] : f \in (SUBSET PluginFlags) \ {{}} }

\* CreateGrpcChannel, line 91: the regular path.
IsRegularPath(config) == config.text \in {"", "default", "none"}

\* CreateGrpcChannel, lines 93 and 107-109: whether grpc.channel_id is set.
SetsChannelIdRegularOnly(config) == IsRegularPath(config)
SetsChannelId(config) ==
  IsRegularPath(config) \/ "exclusive" \in config.settings

\* CreateGrpcChannel: the channel, by the arguments it is created with.
CreateGrpcChannel(config, channel_id) ==
  LET dp == ~IsRegularPath(config)
              /\ ("dp" \in config.settings \/ "alts" \in config.settings)
      has(flag) == ~IsRegularPath(config) /\ flag \in config.settings
  IN  [ channel_id |-> IF SetsChannelId(config)
                       THEN Option(channel_id) ELSE NoOption,
        service_config |-> IF dp \/ has("pick-first-lb")
                           THEN Option("kDirectPathConfig") ELSE NoOption,
        dns_enable_srv_queries |->
          IF has("disable-dns-srv-queries") THEN Option(0)
          ELSE IF dp \/ has("enable-dns-srv-queries") THEN Option(1)
          ELSE NoOption,
        credentials |-> IF has("alts") THEN "alts" ELSE "auth" ]

\* CreateStorageStub, lines 135-136: the number of children.
NumChildrenUnclamped(num_channels) == num_channels
NumChildren(num_channels) == Max(1, num_channels)

\* StorageRoundRobin::Child: the child the next call goes to.
RoundRobinChildStuck(counter, n) == 0
RoundRobinChild(counter, n) == counter % n

\* StorageRoundRobin::Child: the counter after a call was dispatched.
NextCurrentLost(counter) == counter
NextCurrent(counter) == counter + 1

Callers == 1..NumCallers

IdleCaller == [pc |-> "idle"]

PoolIdle ==
  /\ options = [ GrpcNumChannels |-> 1,
                 GrpcPluginConfig |-> [text |-> "", settings |-> {}],
                 RequiresConfigureContext |-> FALSE ]
  /\ pl_pc = "idle"
  /\ children = << >>
  /\ stub = "none"
  /\ current = 0
  /\ callers = [c \in Callers |-> IdleCaller]
  /\ dispatched = << >>

PoolStart ==
  /\ options \in [ GrpcNumChannels : -1..MaxChannels,
                    GrpcPluginConfig : PluginConfigs,
                    RequiresConfigureContext : BOOLEAN ]
  /\ pl_pc = "start"
  /\ children = << >>
  /\ stub = "none"
  /\ current = 0
  /\ callers = [c \in Callers |-> IdleCaller]
  /\ dispatched = << >>

\* CreateStorageStub
CreateStorageStub ==
  /\ pl_pc = "start"
  /\ children' = [ i \in 1..NumChildren(options.GrpcNumChannels) |->
                     CreateGrpcChannel(options.GrpcPluginConfig, i - 1) ]
  /\ stub' = IF options.RequiresConfigureContext
             THEN "StorageAuth" ELSE "StorageRoundRobin"
  /\ pl_pc' = "ready"
  /\ UNCHANGED << options, current, callers, dispatched >>
  /\ UNCHANGED << uploadVars, readVars, sessionVars, crcVars,
                  unimplementedVars, adminVars >>

\* A thread starts a call on the stub: the round-robin stub picks the child
\* and moves its counter on, in one step.
Dispatch(c) ==
  /\ pl_pc = "ready"
  /\ callers[c].pc = "idle"
  /\ current < MaxCalls
  /\ LET child == RoundRobinChild(current, Len(children))
     IN  /\ callers' = [callers EXCEPT ![c] = [pc |-> "calling", child |-> child]]
         /\ dispatched' = Append(dispatched, child)
  /\ current' = NextCurrent(current)
  /\ UNCHANGED << options, pl_pc, children, stub >>
  /\ UNCHANGED << uploadVars, readVars, sessionVars, crcVars,
                  unimplementedVars, adminVars >>

\* The call of a thread on its child returns.
Return(c) ==
  /\ callers[c].pc = "calling"
  /\ callers' = [callers EXCEPT ![c] = IdleCaller]
  /\ UNCHANGED << options, pl_pc, children, stub, current, dispatched >>
  /\ UNCHANGED << uploadVars, readVars, sessionVars, crcVars,
                  unimplementedVars, adminVars >>

\* ------------------------------------------------ crc32c round trip

\* The 16-bit halves the crc32c values are built from: the corners of the
\* range and values whose two bytes differ.
Halves == { 0, 1, 255, 256, 258, 772, 32767, 32768, 43981, 65280, 65535 }

CrcIdle ==
  /\ crc_value = U32(0, 0)
  /\ crc_pc = "idle"
  /\ crc_text = << >>
  /\ crc_back = NoOption

CrcStart ==
  /\ crc_value \in { U32(hi, lo) : hi, lo \in Halves }
  /\ crc_pc = "start"
  /\ crc_text = << >>
  /\ crc_back = NoOption

\* The value goes out as text (Crc32cFromProto).
EncodeCrc32c ==
  /\ crc_pc = "start"
  /\ crc_text' = Crc32cFromProto(crc_value)
  /\ crc_pc' = "encoded"
  /\ UNCHANGED << crc_value, crc_back >>
  /\ UNCHANGED << uploadVars, readVars, sessionVars, poolVars,
                  unimplementedVars, adminVars >>

\* The text comes back as a value (Crc32cToProto).
DecodeCrc32c ==
  /\ crc_pc = "encoded"
  /\ crc_back' = Option(Crc32cToProto(crc_text))
  /\ crc_pc' = "done"
  /\ UNCHANGED << crc_value, crc_text >>
  /\ UNCHANGED << uploadVars, readVars, sessionVars, poolVars,
                  unimplementedVars, adminVars >>

\* ---------------------------------------------------- specifications

\* ------------------------------------------ unimplemented operations

\* The operations whose body is `return Status(kUnimplemented, __func__)`
\* (lines 197-251, 295-302, 328-353, 390-535).
UnimplementedOperations ==
  { "ListBuckets", "CreateBucket", "GetBucketMetadata", "DeleteBucket",
    "UpdateBucket", "PatchBucket", "GetBucketIamPolicy",
    "GetNativeBucketIamPolicy", "SetBucketIamPolicy",
    "SetNativeBucketIamPolicy", "TestBucketIamPermissions",
    "LockBucketRetentionPolicy",
    "CopyObject", "GetObjectMetadata", "ListObjects", "DeleteObject",
    "UpdateObject", "PatchObject", "ComposeObject", "RewriteObject",
    "DeleteResumableUpload",
    "ListBucketAcl", "GetBucketAcl", "CreateBucketAcl", "DeleteBucketAcl",
    "ListObjectAcl", "UpdateBucketAcl", "PatchBucketAcl", "CreateObjectAcl",
    "DeleteObjectAcl", "GetObjectAcl", "UpdateObjectAcl", "PatchObjectAcl",
    "ListDefaultObjectAcl", "CreateDefaultObjectAcl",
    "DeleteDefaultObjectAcl", "GetDefaultObjectAcl",
    "UpdateDefaultObjectAcl", "PatchDefaultObjectAcl",
    "GetServiceAccount", "ListHmacKeys", "CreateHmacKey", "DeleteHmacKey",
    "GetHmacKey", "UpdateHmacKey", "SignBlob", "ListNotifications",
    "CreateNotification", "GetNotification", "DeleteNotification" }

\* The arguments of these operations: every one names a project, a bucket
\* or an upload, here one name out of two.
UnimplementedRequests == [ name : {"bucket", "other-bucket"} ]

\* What such an operation does with its argument and the stub: it returns
\* Status(StatusCode::kUnimplemented, __func__) and calls nothing.
UnimplementedBestEffort(op, req, calls) ==
  IF op = "GetObjectMetadata"
  THEN [ result |-> Ok([name |-> req.name]),
         stub_calls |-> Append(calls, [rpc |-> op, request |-> req]) ]
  ELSE [ result |-> [ok |-> FALSE, code |-> "Unimplemented", message |-> op],
         stub_calls |-> calls ]
Unimplemented(op, req, calls) ==
  [ result |-> [ok |-> FALSE, code |-> "Unimplemented", message |-> op],
    stub_calls |-> calls ]

UnimplementedIdle ==
  /\ un_count = 0
  /\ un_op = "none"
  /\ un_request = NoOption
  /\ un_stub_calls = << >>
  /\ un_result = NoOption

\* One call of one of the unimplemented operations.
UnimplementedOperation ==
  /\ un_count < MaxUnimplementedCalls
  /\ \E op \in UnimplementedOperations, req \in UnimplementedRequests :
       LET out == Unimplemented(op, req, un_stub_calls)
       IN  /\ un_op' = op
           /\ un_request' = Option(req)
           /\ un_result' = Option(out.result)
           /\ un_stub_calls' = out.stub_calls
  /\ un_count' = un_count + 1
  /\ UNCHANGED << uploadVars, readVars, sessionVars, poolVars, crcVars,
                  adminVars >>

\* ----------------------------------------------- DatabaseAdminClient

\* The operations of DatabaseAdminClient that start a long-running
\* operation: the start RPC of the stub has the name of the operation.
AdminOperations == {"CreateDatabase", "UpdateDatabase"}

\* The Await member of the stub that belongs to a start RPC.
AwaitRpc(op) ==
  IF op = "CreateDatabase" THEN "AwaitCreateDatabase" ELSE "AwaitUpdateDatabase"

Databases == {"test-db", "other-db"}

\* google::longrunning::Operation as the start RPC returns it: an operation
\* that is not done has no response yet.
Operations ==
  { o \in [ name : {"test-operation-name"}, done : BOOLEAN,
            has_response : BOOLEAN ] : o.has_response => o.done }

\* What the mocked start RPC answers (test lines 59-69, 94-99, 171-178).
StartResponses ==
  { Ok(o) : o \in Operations }
    \cup { Error(c) : c \in {"PermissionDenied", "Unavailable"} }

\* What the future of the mocked Await yields (test lines 70-78, 179-184).
AwaitValues(database) == { Ok([name |-> database]), Error("Aborted") }

PendingFuture == [ready |-> FALSE, value |-> NoOption]
ReadyFuture(v) == [ready |-> TRUE, value |-> Option(v)]

\* The futures Await may return: satisfied already, or still pending.
AwaitFutures(database) ==
  { ReadyFuture(v) : v \in AwaitValues(database) } \cup {PendingFuture}

\* DatabaseAdminClient::CreateDatabase / UpdateDatabase: the start RPC; on
\* an error a ready future with that status; else Await, once, with the
\* operation returned, whose future is the future returned.
StartThenAwaitAlways(op, start, future) ==
  [ calls |-> << [rpc |-> op, operation |-> NoOption],
                 [rpc |-> AwaitRpc(op),
                  operation |-> IF start.ok THEN Option(start.value)
                                ELSE NoOption] >>,
    future |-> IF start.ok THEN future ELSE ReadyFuture(start),
    linked |-> start.ok ]
StartThenAwaitDetached(op, start, future) ==
  IF ~start.ok
  THEN [ calls |-> << [rpc |-> op, operation |-> NoOption] >>,
         future |-> ReadyFuture(start),
         linked |-> FALSE ]
  ELSE [ calls |-> << [rpc |-> op, operation |-> NoOption],
                      [rpc |-> AwaitRpc(op), operation |-> Option(start.value)] >>,
         future |-> ReadyFuture(Ok([name |-> start.value.name])),
         linked |-> FALSE ]
StartThenAwait(op, start, future) ==
  IF ~start.ok
  THEN [ calls |-> << [rpc |-> op, operation |-> NoOption] >>,
         future |-> ReadyFuture(start),
         linked |-> FALSE ]
  ELSE [ calls |-> << [rpc |-> op, operation |-> NoOption],
                      [rpc |-> AwaitRpc(op), operation |-> Option(start.value)] >>,
         future |-> future,
         linked |-> TRUE ]

AdminIdle ==
  /\ ad_op = "none"
  /\ ad_database = "none"
  /\ ad_pc = "idle"
  /\ ad_start = NoOption
  /\ ad_calls = << >>
  /\ await_future = PendingFuture
  /\ ad_future = PendingFuture
  /\ ad_linked = FALSE
  /\ ad_ready_at_return = FALSE
  /\ ad_result = NoOption

AdminStart ==
  /\ ad_op \in AdminOperations
  /\ ad_database \in Databases
  /\ ad_pc = "start"
  /\ ad_start = NoOption
  /\ ad_calls = << >>
  /\ await_future = PendingFuture
  /\ ad_future = PendingFuture
  /\ ad_linked = FALSE
  /\ ad_ready_at_return = FALSE
  /\ ad_result = NoOption

\* client.CreateDatabase(dbase) / client.UpdateDatabase(dbase, ...), up to
\* its return (test lines 82, 103, 136, 158, 188, 213).
StartDatabaseOperation ==
  /\ ad_pc = "start"
  /\ \E start \in StartResponses, future \in AwaitFutures(ad_database) :
       LET out == StartThenAwait(ad_op, start, future)
       IN  /\ ad_start' = Option(start)
           /\ ad_calls' = out.calls
           /\ await_future' = IF Len(out.calls) > 1 THEN future ELSE await_future
           /\ ad_future' = out.future
           /\ ad_linked' = out.linked
           /\ ad_ready_at_return' = out.future.ready
  /\ ad_pc' = "returned"
  /\ UNCHANGED << ad_op, ad_database, ad_result >>
  /\ UNCHANGED << uploadVars, readVars, sessionVars, poolVars, crcVars,
                  unimplementedVars >>

\* The polling of the stub ends: the future Await returned is satisfied,
\* and with it the client's future if it is the same one.
AwaitCompletes ==
  /\ ad_pc = "returned"
  /\ Len(ad_calls) > 1
  /\ ~await_future.ready
  /\ \E v \in AwaitValues(ad_database) :
       /\ await_future' = ReadyFuture(v)
       /\ ad_future' = IF ad_linked THEN ReadyFuture(v) ELSE ad_future
  /\ UNCHANGED << ad_op, ad_database, ad_pc, ad_start, ad_calls, ad_linked,
                  ad_ready_at_return, ad_result >>
  /\ UNCHANGED << uploadVars, readVars, sessionVars, poolVars, crcVars,
                  unimplementedVars >>

\* fut.get() (test lines 84, 105, 138, 160, 188, 216): the caller takes the
\* value of a ready future.
FutureGet ==
  /\ ad_pc = "returned"
  /\ ad_future.ready
  /\ ad_result' = ad_future.value
  /\ ad_pc' = "done"
  /\ UNCHANGED << ad_op, ad_database, ad_start, ad_calls, await_future,
                  ad_future, ad_linked, ad_ready_at_return >>
  /\ UNCHANGED << uploadVars, readVars, sessionVars, poolVars, crcVars,
                  unimplementedVars >>

\* ------------------------------------------------------ specifications

InitUpload ==
  UploadStart /\ ReadIdle /\ SessionIdle /\ PoolIdle /\ CrcIdle
  /\ UnimplementedIdle /\ AdminIdle

SpecUpload == InitUpload /\ [][NextUpload]_vars

\* InsertObjectMedia is one synchronous call on the caller's thread: every
\* Write and Close of the stream returns, so the call keeps taking steps
\* until it returns.
SpecUploadFair == InitUpload /\ [][NextUpload]_vars /\ WF_vars(NextUpload)

NextRead == ReadObject

InitRead ==
  UploadIdle /\ ReadStart /\ SessionIdle /\ PoolIdle /\ CrcIdle
  /\ UnimplementedIdle /\ AdminIdle

SpecRead == InitRead /\ [][NextRead]_vars

NextPool ==
  \/ CreateStorageStub
  \/ \E c \in Callers : Dispatch(c)
  \/ \E c \in Callers : Return(c)

InitPool ==
  UploadIdle /\ ReadIdle /\ SessionIdle /\ PoolStart /\ CrcIdle
  /\ UnimplementedIdle /\ AdminIdle

SpecPool == InitPool /\ [][NextPool]_vars

NextSession ==
  \/ QueryResumableUpload
  \/ CreateResumableSession
  \/ RestoreResumableSession
  \/ ResetSession
  \/ RestoreResumableSessionReturn
  \/ CallAgain

InitSession ==
  UploadIdle /\ ReadIdle /\ SessionStart /\ PoolIdle /\ CrcIdle
  /\ UnimplementedIdle /\ AdminIdle

SpecSession == InitSession /\ [][NextSession]_vars

NextCrc ==
  \/ EncodeCrc32c
  \/ DecodeCrc32c

InitCrc ==
  UploadIdle /\ ReadIdle /\ SessionIdle /\ PoolIdle /\ CrcStart
  /\ UnimplementedIdle /\ AdminIdle

SpecCrc == InitCrc /\ [][NextCrc]_vars

NextUnimplemented == UnimplementedOperation

InitUnimplemented ==
  UploadIdle /\ ReadIdle /\ SessionIdle /\ PoolIdle /\ CrcIdle
  /\ UnimplementedIdle /\ AdminIdle

SpecUnimplemented == InitUnimplemented /\ [][NextUnimplemented]_vars

NextAdmin ==
  \/ StartDatabaseOperation
  \/ AwaitCompletes
  \/ FutureGet

InitAdmin ==
  UploadIdle /\ ReadIdle /\ SessionIdle /\ PoolIdle /\ CrcIdle
  /\ UnimplementedIdle /\ AdminStart

SpecAdmin == InitAdmin /\ [][NextAdmin]_vars

\* ------------------------------------------------------------- claims

\* ceil(s / c)
CeilDiv(s, c) == (s + c - 1) \div c

RECURSIVE SumContent(_, _)
\* The payload bytes carried by the first k messages written.
SumContent(w, k) ==
  IF k = 0 THEN 0 ELSE SumContent(w, k - 1) + Len(w[k].msg.content)

AllAccepted == \A k \in 1..Len(writes) : writes[k].accepted

\* The number of messages an upload of s bytes with cap c takes.
ExpectedWrites(s, c) == IF s = 0 THEN 1 ELSE CeilDiv(s, c)

\* The upload loop is over: the stream is being closed or was closed.
LoopOver == up_pc = "close" \/ (up_pc = "done" /\ insert_streams = 1)

\* C1: with every Write accepted, an upload of S bytes with chunk cap C
\* never sends more than ceil(S / C) messages (1 when S = 0); once the loop is
\* over it has sent exactly that many, their content lengths sum to S, and
\* the finish flag and the last-message marker are set on the final message
\* and on no earlier one.
C1_ChunkCount ==
  AllAccepted =>
    LET s == Len(request.contents)
        expected == ExpectedWrites(s, maximum_buffer_size)
    IN  /\ Len(writes) <= expected
        /\ \A k \in 1..Len(writes) :
             k < expected => /\ ~writes[k].msg.finish_write
                             /\ ~writes[k].last_message
        /\ LoopOver =>
             /\ Len(writes) = expected
             /\ SumContent(writes, Len(writes)) = s
             /\ writes[Len(writes)].msg.finish_write
             /\ writes[Len(writes)].last_message

\* C1 witness: a finished upload of 5 bytes with cap 2, every Write accepted,
\* sent as three messages.
C1_Witness ==
  /\ up_pc = "done"
  /\ AllAccepted
  /\ Len(request.contents) = 5
  /\ maximum_buffer_size = 2
  /\ Len(writes) = 3

\* C2: the write offset of every message sent equals the number of payload
\* bytes carried by the messages before it; the first offset is 0, message k
\* (0-based) has offset k * C, and offsets strictly increase.
C2_WriteOffsets ==
  \A k \in 1..Len(writes) :
    /\ writes[k].msg.write_offset = SumContent(writes, k - 1)
    /\ writes[k].msg.write_offset = (k - 1) * maximum_buffer_size
    /\ k > 1 => writes[k - 1].msg.write_offset < writes[k].msg.write_offset

\* C2 witness: the 5-byte payload with cap 2 went out as 2, 2 and 1 bytes at
\* offsets 0, 2 and 4, only the third message flagged final.
C2_Witness ==
  /\ up_pc = "done"
  /\ Len(writes) = 3
  /\ [k \in 1..3 |-> writes[k].msg.write_offset] = << 0, 2, 4 >>
  /\ [k \in 1..3 |-> Len(writes[k].msg.content)] = << 2, 2, 1 >>
  /\ [k \in 1..3 |-> writes[k].msg.finish_write] = << FALSE, FALSE, TRUE >>
  /\ writes[3].msg.content = << 4 >>

\* The request that the one GetObjectMedia call of the operation carried.
ResolvedRead == media_calls[1].request

\* C3: a read with an absolute range [begin, end) and a from-offset F with
\* begin < F < end (and no last-N option) is sent with offset = F and
\* limit = (end - begin) - (F - begin), keeping the range's upper bound.
C3_FromOffsetKeepsUpperBound ==
  ( /\ rd_pc = "done"
    /\ read_request.ReadRange.has
    /\ ~read_request.ReadLast.has
    /\ read_request.ReadFromOffset.has
    /\ read_request.ReadFromOffset.value > read_request.ReadRange.value.begin
    /\ read_request.ReadFromOffset.value < read_request.ReadRange.value.end )
  => /\ Len(media_calls) = 1
     /\ ResolvedRead.read_offset = read_request.ReadFromOffset.value
     /\ ResolvedRead.read_limit =
          (read_request.ReadRange.value.end - read_request.ReadRange.value.begin)
            - (read_request.ReadFromOffset.value
                 - read_request.ReadRange.value.begin)

\* C4: ReadObject with the ReadLast option present and equal to 0 returns
\* OutOfRange, whatever the other options, and issues no GetObjectMedia call.
C4_ReadLastZeroRejected ==
  (rd_pc = "done" /\ read_request.ReadLast.has /\ read_request.ReadLast.value = 0)
  => /\ rd_result = Option(Error("OutOfRange"))
     /\ media_calls = << >>

\* C4 witness: a ReadLast(0) request that also carries a range and a
\* from-offset was rejected.
C4_Witness ==
  /\ rd_pc = "done"
  /\ read_request.ReadLast = Option(0)
  /\ read_request.ReadRange.has
  /\ read_request.ReadFromOffset.has
  /\ rd_result = Option(Error("OutOfRange"))

\* A restore ran: by a call of RestoreResumableSession, or by
\* CreateResumableSession handing over to it.
RestoreCalled ==
  \/ sn_op = "RestoreResumableSession"
  \/ sn_op = "CreateResumableSession" /\ RestoreUrlOf(sn_input).has

\* The ResetSession calls made so far show as write-status queries.
ResetCalls == Len(stub_calls)

\* C5: RestoreResumableSession returns a session only after ResetSession was
\* called on it and returned OK; when ResetSession reports an error, the
\* restore returns exactly that error and no session.
C5_RestoreResetsFirst ==
  (RestoreCalled /\ sn_pc = "done") =>
    /\ sn_result.value.ok =>
         /\ ResetCalls = 1
         /\ reset_response.has
         /\ reset_response.value.ok
         /\ sn_result.value.value = session.value
    /\ (reset_response.has /\ ~reset_response.value.ok) =>
         /\ sn_result.value = Error(reset_response.value.code)
         /\ session = NoOption

\* C5 witness: a restore whose ResetSession failed with NotFound returned
\* NotFound.
C5_Witness ==
  /\ sn_op = "RestoreResumableSession"
  /\ sn_pc = "done"
  /\ reset_response = Option(Error("NotFound"))
  /\ sn_result = Option(Error("NotFound"))

\* The channels of the pool are numbered from 0.
ChannelIndices == 0..(Len(children) - 1)

\* The number of calls dispatched to child i.
CallsOn(i) == Cardinality({ k \in 1..Len(dispatched) : dispatched[k] = i })

\* C6: in a pool of N channels, any N consecutive calls go to N pairwise
\* distinct channels (each index 0..N-1 once), wherever the run of N calls
\* starts, and each call goes to the channel after the previous call's,
\* modulo N.
C6_RoundRobinCyclic ==
  pl_pc = "ready" =>
    LET n == Len(children)
    IN  /\ \A k \in 1..(Len(dispatched) - n + 1) :
             { dispatched[k + i] : i \in 0..(n - 1) } = ChannelIndices
        /\ \A k \in 1..(Len(dispatched) - 1) :
             dispatched[k + 1] = (dispatched[k] + 1) % n

\* C6 witness: four calls on a pool of three channels, the fourth wrapping
\* around to channel 0.
C6_Witness ==
  /\ pl_pc = "ready"
  /\ Len(children) = 3
  /\ dispatched = << 0, 1, 2, 0 >>

C8_PoolSize ==
  pl_pc = "ready" =>
    /\ Len(children) >= 1
    /\ Len(children) = IF options.GrpcNumChannels >= 1
                       THEN options.GrpcNumChannels ELSE 1

\* C8 witness: a pool configured with -1 channels was built with one.
C8_Witness ==
  /\ pl_pc = "ready"
  /\ options.GrpcNumChannels = -1
  /\ Len(children) = 1

\* C9 as claimed: for every value of the plugin configuration the i-th
\* channel is created with grpc.channel_id = i.
C9_EveryConfigSetsChannelId ==
  pl_pc = "ready" =>
    \A i \in 1..Len(children) : children[i].channel_id = Option(i - 1)

\* C9, amended: when the plugin configuration is empty, "default" or "none",
\* or lists "exclusive", the i-th channel is created with grpc.channel_id = i,
\* so the channel ids of a pool are pairwise distinct; for any other
\* configuration no channel is given a grpc.channel_id.
C9_ChannelIdWhenExclusive ==
  pl_pc = "ready" =>
    IF \/ options.GrpcPluginConfig.text \in {"", "default", "none"}
       \/ "exclusive" \in options.GrpcPluginConfig.settings
    THEN /\ \A i \in 1..Len(children) : children[i].channel_id = Option(i - 1)
         /\ \A i, j \in 1..Len(children) :
              children[i].channel_id = children[j].channel_id => i = j
    ELSE \A i \in 1..Len(children) : children[i].channel_id = NoOption

\* C9 witness: a pool of three channels built with the configuration
\* "dp,exclusive" has the channel ids 0, 1, 2.
C9_Witness ==
  /\ pl_pc = "ready"
  /\ options.GrpcPluginConfig = [text |-> "list", settings |-> {"dp", "exclusive"}]
  /\ [i \in 1..Len(children) |-> children[i].channel_id]
       = << Option(0), Option(1), Option(2) >>

\* C10: Crc32cToProto(Crc32cFromProto(v)) is OK with value v; the text is the
\* base64 form of four bytes: eight characters, the last two of them padding.
C10_Crc32cRoundTrip ==
  /\ crc_pc # "start" =>
       /\ Len(crc_text) = 8
       /\ \A k \in 1..6 : crc_text[k] \in 0..63
       /\ crc_text[7] = kPadding /\ crc_text[8] = kPadding
  /\ crc_pc = "done" => crc_back = Option(Ok(crc_value))

\* C10 witness: the value 0xABCD0102 came back from its text form.
C10_Witness ==
  /\ crc_pc = "done"
  /\ crc_value = U32(43981, 258)
  /\ crc_back = Option(Ok(U32(43981, 258)))

\* The stream of the upload was opened: ToProto accepted the request.
StreamOpened == insert_streams = 1

\* The whole-object checksums of the first message written.
SentChecksums == writes[1].msg.object_checksums.value

\* C11: for each whole-object checksum kind of an upload, by precedence: a
\* value the caller supplied is the value sent (converted back to the
\* caller's format it is the caller's value), even when the disable flag is
\* set too; otherwise, with the disable flag set, the field is unset;
\* otherwise the value computed from the full payload is sent.
C11_ChecksumPrecedence ==
  Len(writes) >= 1 =>
    /\ writes[1].msg.object_checksums.has
    /\ IF request.Crc32cChecksumValue.has
       THEN /\ SentChecksums.crc32c.has
            /\ Crc32cFromProto(SentChecksums.crc32c.value)
                 = request.Crc32cChecksumValue.value
       ELSE IF request.DisableCrc32cChecksum = Option(TRUE)
       THEN SentChecksums.crc32c = NoOption
       ELSE SentChecksums.crc32c = Option(Crc32c(request.contents))
    /\ IF request.MD5HashValue.has
       THEN /\ SentChecksums.md5_hash.has
            /\ MD5FromProto(SentChecksums.md5_hash.value)
                 = request.MD5HashValue.value
       ELSE IF request.DisableMD5Hash = Option(TRUE)
       THEN SentChecksums.md5_hash = NoOption
       ELSE SentChecksums.md5_hash = Option(ComputeMD5Hash(request.contents))

\* C11 witness: the caller supplied both checksums and set both disable
\* flags; the first message carries the supplied values.
C11_Witness ==
  /\ Len(writes) >= 1
  /\ request.Crc32cChecksumValue = Option(Crc32cFromProto(U32(258, 772)))
  /\ request.DisableCrc32cChecksum = Option(TRUE)
  /\ request.MD5HashValue = Option(Base64Encode(<< 1, 2, 3 >>))
  /\ request.DisableMD5Hash = Option(TRUE)
  /\ SentChecksums.crc32c = Option(U32(258, 772))
  /\ SentChecksums.md5_hash = Option(<< 0, 1, 0, 2, 0, 3 >>)

\* The crc32c value of the caller is no base64 text or is not four bytes long.
BadCrc32cValue ==
  /\ request.Crc32cChecksumValue.has
  /\ \/ ~Base64Valid(request.Crc32cChecksumValue.value)
     \/ Len(Base64Bytes(request.Crc32cChecksumValue.value)) # 4

\* The MD5 value of the caller is no base64 text.
BadMD5Value ==
  /\ request.MD5HashValue.has
  /\ ~Base64Valid(request.MD5HashValue.value)

\* C12: with a crc32c value that is no base64 text or not four bytes long, or
\* an MD5 value that is no base64 text, InsertObjectMedia opens no stream,
\* issues no Write and no Close, and returns InvalidArgument.
C12_BadChecksumRejectedLocally ==
  (BadCrc32cValue \/ BadMD5Value) =>
    /\ insert_streams = 0
    /\ writes = << >>
    /\ close_calls = 0
    /\ up_pc \in {"start", "done"}
    /\ up_pc = "done" => up_result = Option(Error("InvalidArgument"))

\* C12 witness: an upload whose crc32c value decodes to three bytes ended
\* with InvalidArgument.
C12_Witness ==
  /\ up_pc = "done"
  /\ request.Crc32cChecksumValue = Option(<< 0, 0, 0, 0 >>)
  /\ ~request.MD5HashValue.has
  /\ Len(request.contents) = 3
  /\ up_result = Option(Error("InvalidArgument"))

C14_ResultIsCloseOutcome ==
  /\ (up_pc = "done" /\ StreamOpened) =>
       /\ close_calls = 1
       /\ close_response.has
       /\ IF ~close_response.value.ok
          THEN up_result = Option(close_response.value)
          ELSE /\ up_result.value.ok
               /\ up_result.value.value.name = close_response.value.value.name
               /\ up_result.value.value.generation
                    = close_response.value.value.generation
  /\ \A j, k \in 1..Len(writes) :
       writes[j].msg.write_offset = writes[k].msg.write_offset => j = k
  /\ \A k \in 1..(Len(writes) - 1) : writes[k].accepted

\* C14 witness: after two accepted messages the third Write was rejected and
\* Close answered Unavailable, which the call returned.
C14_Witness ==
  /\ up_pc = "done"
  /\ Len(writes) = 3
  /\ ~writes[3].accepted
  /\ close_response = Option(Error("Unavailable"))
  /\ up_result = Option(Error("Unavailable"))

\* C15: a read with a last-N option (N > 0) and an absolute range
\* [begin, end), begin < end (and no from-offset option), is sent with
\* offset = begin and limit = end - begin: the range is applied after the
\* last-N option and the offset is not left at -N.
C15_RangeAppliedAfterReadLast ==
  ( /\ rd_pc = "done"
    /\ read_request.ReadRange.has
    /\ read_request.ReadRange.value.begin < read_request.ReadRange.value.end
    /\ read_request.ReadLast.has
    /\ read_request.ReadLast.value > 0
    /\ ~read_request.ReadFromOffset.has )
  => /\ Len(media_calls) = 1
     /\ ResolvedRead.read_offset = read_request.ReadRange.value.begin
     /\ ResolvedRead.read_limit =
          read_request.ReadRange.value.end - read_request.ReadRange.value.begin

\* C16: QueryResumableUpload issues exactly one write-status query, carrying
\* the session token of the request; for a successful answer it returns the
\* committed size of the answer and the state Done exactly when the answer's
\* completion flag is set, InProgress otherwise; for a failed query it
\* returns that status unchanged.
C16_QueryResumableUpload ==
  (sn_op = "QueryResumableUpload" /\ sn_pc = "done") =>
    /\ Len(stub_calls) = 1
    /\ stub_calls[1].rpc = "QueryWriteStatus"
    /\ stub_calls[1].request.upload_id = sn_input.upload_session_url
    /\ sn_result.has
    /\ IF stub_calls[1].response.ok
       THEN /\ sn_result.value.ok
            /\ sn_result.value.value.last_committed_byte
                 = stub_calls[1].response.value.committed_size
            /\ (sn_result.value.value.upload_state = "kDone")
                 = stub_calls[1].response.value.complete
            /\ (sn_result.value.value.upload_state = "kInProgress")
                 = ~stub_calls[1].response.value.complete
       ELSE sn_result.value = stub_calls[1].response

\* C16 witness: a query answered with committed size 2 and no completion
\* flag returned size 2, InProgress.
C16_Witness ==
  /\ sn_op = "QueryResumableUpload"
  /\ sn_pc = "done"
  /\ stub_calls[1].response = Ok([committed_size |-> 2, complete |-> FALSE])
  /\ sn_result.value.value.last_committed_byte = 2
  /\ sn_result.value.value.upload_state = "kInProgress"

\* C17: every bucket, ACL, default-ACL, HMAC-key, notification,
\* service-account, sign-blob and object copy / list / delete / update /
\* patch / compose / rewrite / get-metadata operation, and
\* DeleteResumableUpload, returns Unimplemented for every argument, calls
\* nothing on the stub and leaves the state of the client as it was.
C17_UnimplementedOperations ==
  un_count > 0 =>
    /\ un_op \in UnimplementedOperations
    /\ un_result.has
    /\ ~un_result.value.ok
    /\ un_result.value.code = "Unimplemented"
    /\ un_stub_calls = << >>
    /\ UploadIdle /\ ReadIdle /\ SessionIdle /\ PoolIdle /\ CrcIdle

\* C17 witness: GetObjectMetadata was called after DeleteResumableUpload and
\* returned Unimplemented.
C17_Witness ==
  /\ un_count = 2
  /\ un_op = "GetObjectMetadata"
  /\ un_request = Option([name |-> "other-bucket"])
  /\ un_result = Option([ok |-> FALSE, code |-> "Unimplemented",
                         message |-> "GetObjectMetadata"])

\* The calls of the Await member of the stub.
AwaitCalls == { k \in 1..Len(ad_calls) : ad_calls[k].rpc = AwaitRpc(ad_op) }

C19_AwaitOnceThenItsValue ==
  (ad_pc \in {"returned", "done"} /\ ad_start.value.ok) =>
    /\ Len(ad_calls) = 2
    /\ ad_calls[1].rpc = ad_op
    /\ AwaitCalls = {2}
    /\ ad_calls[2].operation = Option(ad_start.value.value)
    /\ ad_future.ready = await_future.ready
    /\ ad_future.ready => ad_future.value = await_future.value
    /\ ad_pc = "done" => ad_result = await_future.value

\* C19 witness: CreateDatabase started an operation that was not done, the
\* polling ended later with Aborted, and the caller got Aborted.
C19_Witness ==
  /\ ad_op = "CreateDatabase"
  /\ ad_pc = "done"
  /\ ad_start = Option(Ok([name |-> "test-operation-name", done |-> FALSE,
                           has_response |-> FALSE]))
  /\ ~ad_ready_at_return
  /\ await_future = ReadyFuture(Error("Aborted"))
  /\ ad_result = Option(Error("Aborted"))

\* C20: InsertObjectMedia always returns; with the stream opened it has
\* issued at most max(1, ceil(S / C)) Writes, whatever Writes were accepted
\* or rejected, and has called Close exactly once, after its last Write.
C20_TerminatesAndClosesOnce ==
  /\ <>(up_pc = "done")
  /\ [](Len(writes) <= Max(1, CeilDiv(Len(request.contents),
                                      maximum_buffer_size)))
  /\ []((up_pc = "done" /\ StreamOpened) =>
          (close_calls = 1 /\ Len(writes) >= 1))
  /\ [](close_calls <= 1)
  /\ [][close_calls' # close_calls =>
          (Len(writes) >= 1 /\ writes' = writes /\ up_pc' = "done")]_vars
  /\ [][close_calls = 1 => writes' = writes]_vars

\* C20 witness: a payload of five bytes with a chunk cap of one; the second
\* Write was rejected, Close was called once and the call returned.
C20_Witness ==
  /\ up_pc = "done"
  /\ Len(request.contents) = 5
  /\ maximum_buffer_size = 1
  /\ Len(writes) = 2
  /\ ~writes[2].accepted
  /\ close_calls = 1

\* C21: after a Write that the stream rejected nothing more is written on
\* the stream; after a rejected Write that was not the final one no message
\* with the finish flag or the last-message marker is ever sent; the stream
\* is closed next, and the call returns the outcome of Close, also when it
\* was the final Write that was rejected.
C21_RejectedWriteEndsUpload ==
  /\ \A k \in 1..Len(writes) :
       ~writes[k].accepted =>
         /\ k = Len(writes)
         /\ up_pc \in {"close", "done"}
         /\ ~writes[k].last_message =>
              \A j \in 1..Len(writes) :
                ~writes[j].last_message /\ ~writes[j].msg.finish_write
  /\ (up_pc = "done" /\ StreamOpened) =>
       /\ close_calls = 1
       /\ up_result = Option(IF close_response.value.ok
                             THEN Ok(FromProtoObject(close_response.value.value))
                             ELSE close_response.value)

\* C21 witness: of five bytes sent one at a time the second Write was
\* rejected; nothing else was written, Close answered with the object and
\* the call returned its metadata.
C21_Witness ==
  /\ up_pc = "done"
  /\ Len(request.contents) = 5
  /\ maximum_buffer_size = 1
  /\ Len(writes) = 2
  /\ writes[1].accepted
  /\ ~writes[2].accepted
  /\ ~writes[2].msg.finish_write
  /\ close_calls = 1
  /\ close_response = Option(Ok([name |-> "object", generation |-> 2]))
  /\ up_result.value.ok

\* The offset and the limit a request without a last-N option has before
\* its from-offset option is looked at: those of its range, or (0, 0).
OffsetBeforeFromOffset ==
  IF read_request.ReadRange.has THEN read_request.ReadRange.value.begin ELSE 0
LimitBeforeFromOffset ==
  IF read_request.ReadRange.has
  THEN read_request.ReadRange.value.end - read_request.ReadRange.value.begin
  ELSE 0

\* C22: a from-offset that does not exceed the offset resolved so far leaves
\* the offset and the limit as they were (range [10, 50) with from-offset 5
\* or 10 is sent as (10, 40)); a from-offset F with only a last-N option,
\* N > 0, is sent as offset F and limit 0.
C22_FromOffsetFrame ==
  /\ ( /\ rd_pc = "done"
       /\ read_request.ReadFromOffset.has
       /\ ~read_request.ReadLast.has
       /\ read_request.ReadFromOffset.value <= OffsetBeforeFromOffset )
     => /\ Len(media_calls) = 1
        /\ ResolvedRead.read_offset = OffsetBeforeFromOffset
        /\ ResolvedRead.read_limit = LimitBeforeFromOffset
  /\ ( /\ rd_pc = "done"
       /\ read_request.ReadFromOffset.has
       /\ read_request.ReadLast.has
       /\ read_request.ReadLast.value > 0
       /\ ~read_request.ReadRange.has )
     => /\ Len(media_calls) = 1
        /\ ResolvedRead.read_offset = read_request.ReadFromOffset.value
        /\ ResolvedRead.read_limit = 0

\* C22 witness: the range [10, 50) with from-offset 10 was sent as (10, 40).
C22_Witness ==
  /\ rd_pc = "done"
  /\ read_request.ReadRange = Option([begin |-> 10, end |-> 50])
  /\ read_request.ReadFromOffset = Option(10)
  /\ ~read_request.ReadLast.has
  /\ Len(media_calls) = 1
  /\ ResolvedRead.read_offset = 10
  /\ ResolvedRead.read_limit = 40

\* A last-N option with a from-offset and no range was sent with the
\* from-offset as its offset and no limit.
C22_WitnessReadLast ==
  /\ rd_pc = "done"
  /\ read_request.ReadLast = Option(20)
  /\ read_request.ReadFromOffset = Option(0)
  /\ ~read_request.ReadRange.has
  /\ ResolvedRead.read_offset = 0
  /\ ResolvedRead.read_limit = 0

\* The calls of StartResumableWrite made on the stub.
StartResumableWriteCalls ==
  { k \in 1..Len(stub_calls) : stub_calls[k].rpc = "StartResumableWrite" }

\* The request of CreateResumableSession names a session to continue.
HasSessionToken ==
  /\ sn_input.UseResumableUploadSession.has
  /\ sn_input.UseResumableUploadSession.value # EmptyUrl

\* C23: CreateResumableSession with a non-empty UseResumableUploadSession
\* token restores that session and never calls StartResumableWrite; without
\* the option, or with an empty token, it calls StartResumableWrite exactly
\* once and returns the error of a failed call and no session, or else a
\* session with the bucket and object name of the request and the upload id
\* the service returned.
C23_CreateOrRestore ==
  sn_op = "CreateResumableSession" =>
    IF HasSessionToken
    THEN /\ StartResumableWriteCalls = {}
         /\ sn_pc = "done" =>
              \/ /\ ~sn_result.value.ok
                 /\ session = NoOption
              \/ /\ sn_result.value.ok
                 /\ sn_input.UseResumableUploadSession.value
                      = EncodeGrpcResumableUploadSessionUrl(
                          sn_result.value.value.params)
    ELSE /\ sn_pc \in {"start", "done"}
         /\ sn_pc = "done" =>
              /\ Len(stub_calls) = 1
              /\ StartResumableWriteCalls = {1}
              /\ stub_calls[1].request.insert_object_spec
                   = [bucket |-> sn_input.bucket_name,
                      name |-> sn_input.object_name]
              /\ IF ~stub_calls[1].response.ok
                 THEN /\ sn_result = Option(stub_calls[1].response)
                      /\ session = NoOption
                 ELSE /\ sn_result.value.ok
                      /\ sn_result.value.value.params
                           = [ bucket_name |-> sn_input.bucket_name,
                               object_name |-> sn_input.object_name,
                               upload_id |->
                                 stub_calls[1].response.value.upload_id ]
                      /\ sn_result.value.value.next_expected = 0

\* C23 witness: a request with an empty token started a resumable write and
\* got the session of the upload id the service returned.
C23_Witness ==
  /\ sn_op = "CreateResumableSession"
  /\ sn_pc = "done"
  /\ sn_input.UseResumableUploadSession = Option(EmptyUrl)
  /\ Len(stub_calls) = 1
  /\ stub_calls[1].rpc = "StartResumableWrite"
  /\ stub_calls[1].response = Ok([upload_id |-> "upload-2"])
  /\ sn_result.value.ok
  /\ sn_result.value.value.params.upload_id = "upload-2"

\* A request with the token of a session restored it with one write-status
\* query and no StartResumableWrite.
C23_WitnessRestore ==
  /\ sn_op = "CreateResumableSession"
  /\ sn_pc = "done"
  /\ HasSessionToken
  /\ Len(stub_calls) = 1
  /\ stub_calls[1].rpc = "QueryWriteStatus"
  /\ sn_result.value.ok

\* The token RestoreResumableSession is called with is no session url.
UndecodableToken ==
  /\ sn_op = "RestoreResumableSession"
  /\ sn_input \in {GarbageUrl, EmptyUrl}

\* The answers of the service in a sequence of stub calls.
Responses(calls) == [k \in 1..Len(calls) |-> calls[k].response]

C24_WitnessResetFailed ==
  /\ sn_op = "RestoreResumableSession"
  /\ sn_pc = "done"
  /\ Len(sn_history) = 1
  /\ Len(stub_calls) = 1
  /\ stub_calls[1].response = Error("Unavailable")
  /\ sn_history[1].result = Error("Unavailable")
  /\ sn_result = Option(Error("Unavailable"))

====
